---- MODULE Spec2Model ----
(***************************************************************************)
(* Model of src/src/datatypes.ts (pg-mem): the type registry (Types,       *)
(* makeText, makeArray, makeType), the null-aware comparisons of TypeBase  *)
(* and its variants, and canConvert/convert with the lazy producers the    *)
(* variants build.                                                         *)
(*                                                                         *)
(* Type descriptors are objects with reference identity: the model keeps   *)
(* them in `heap`, a sequence in allocation order, and a descriptor's      *)
(* identity is its index in the heap.                                      *)
(*                                                                         *)
(* JavaScript values are tagged records [k |-> <tag>, ...]:                *)
(*   null, undefined, numbers (in hundredths, so 2.5 is 250), strings      *)
(*   (sequences of one-character strings), booleans, moments (integer      *)
(*   milliseconds, or the invalid moment), arrays, references to type      *)
(*   descriptors, and closures.                                            *)
(***************************************************************************)
EXTENDS Integers, Sequences, FiniteSets, TLC

VARIABLES heap, texts, arrays, last

vars == <<heap, texts, arrays, last>>

(* ------------------------------ bounds --------------------------------- *)

\* how many parameterized descriptors (text, array) a run may allocate
MaxCreated == 2
\* the bounded text lengths requested are 1..MaxLen
MaxLen == 2
\* the longest array value compared or converted
MaxArrLen == 2

(* ------------------------------ values --------------------------------- *)

\* numbers are kept in hundredths: Scale is one whole unit
Scale == 100

Null == [k |-> "null"]
Undefined == [k |-> "undefined"]
Num(n) == [k |-> "num", v |-> n]
Str(s) == [k |-> "str", v |-> s]
Bool(b) == [k |-> "bool", v |-> b]
Moment(ms) == [k |-> "moment", v |-> ms]
InvalidMoment == [k |-> "invalidMoment"]
Arr(s) == [k |-> "arr", v |-> s]
\* a length argument of makeText: a plain (unscaled) integer
LenOf(n) == [k |-> "len", n |-> n]
\* a reference to the descriptor at heap index i
Ref(i) == [k |-> "type", id |-> i]
\* the closure stored under Types.text
TextFactory == [k |-> "factory"]
\* a DataType name given where a descriptor may be given
Name(s) == [k |-> "name", s |-> s]

\* outcomes of a call: a returned value or a thrown error
Ok(v) == [st |-> "ok", v |-> v]
Throw(e, m) == [st |-> e, msg |-> m]

DataTypes ==
    {"null", "bool", "int", "long", "float", "decimal", "text", "timestamp", "array"}

integers == {"int", "long"}
numbers == {"int", "long", "decimal", "float"}

(* --------------------------- type descriptors -------------------------- *)

BoolType == [cls |-> "BoolType", primary |-> "bool"]
TimestampType == [cls |-> "TimestampType", primary |-> "timestamp"]
NullType == [cls |-> "NullType", primary |-> "null"]
NumberType(p) == [cls |-> "NumberType", primary |-> p]
TextType(len) == [cls |-> "TextType", primary |-> "text", len |-> len]
ArrayType(of) == [cls |-> "ArrayType", primary |-> "array", of |-> of]

\* the descriptors the Types literal allocates at module load, in order
InitialHeap ==
    << BoolType, TimestampType, NullType,
       NumberType("float"), NumberType("int"), NumberType("long") >>

\* the Types object: property name -> value (undefined when absent)
Types(name) ==
    CASE name = "bool" -> Ref(1)
      [] name = "text" -> TextFactory
      [] name = "timestamp" -> Ref(2)
      [] name = "null" -> Ref(3)
      [] name = "float" -> Ref(4)
      [] name = "int" -> Ref(5)
      [] name = "long" -> Ref(6)
      [] OTHER -> Undefined

\* JavaScript truthiness of the values the registry handles
Truthy(v) == v.k \notin {"null", "undefined"}

\* the primary of whatever makeType returned (undefined on the closure)
PrimaryOf(h, t) == IF t.k = "type" THEN h[t.id].primary ELSE "undefined"

(* ------------------------------ registry ------------------------------- *)

\* makeType(to): a name is looked up in Types, anything else is returned
makeType(to) ==
    IF to.k = "name"
    THEN IF ~Truthy(Types(to.s))
         THEN Throw("Error", "Unsupported raw type")
         ELSE Ok(Types(to.s))
    ELSE Ok(to)

\* Map.get: undefined when the key is absent
MapGet(m, key) == IF key \in DOMAIN m THEN Ref(m[key]) ELSE Undefined

MapSet(m, key, id) == [x \in DOMAIN m \cup {key} |-> IF x = key THEN id ELSE m[x]]

\* len ?? null, after the default parameter (len = null)
Coalesce(len) == IF len.k \in {"undefined", "null"} THEN Null ELSE len

\* makeText that allocates on every call
makeTextFresh(h, tx, len) ==
    LET key == Coalesce(len)
    IN [heap |-> Append(h, TextType(key)),
        texts |-> MapSet(tx, key, Len(h) + 1),
        ret |-> Ref(Len(h) + 1)]

\* makeText(len): the new state of the heap and of texts, and the result
makeText(h, tx, len) ==
    LET key == Coalesce(len)
        got == MapGet(tx, key)
    IN IF ~Truthy(got)
       THEN [heap |-> Append(h, TextType(key)),
             texts |-> MapSet(tx, key, Len(h) + 1),
             ret |-> Ref(Len(h) + 1)]
       ELSE [heap |-> h, texts |-> tx, ret |-> got]

\* makeArray(of)
makeArray(h, ar, of) ==
    LET got == MapGet(ar, of)
    IN IF Truthy(got)
       THEN [heap |-> h, arrays |-> ar, ret |-> got]
       ELSE [heap |-> Append(h, ArrayType(of)),
             arrays |-> MapSet(ar, of, Len(h) + 1),
             ret |-> Ref(Len(h) + 1)]

\* the arguments the registry operations are called with
LenArgs == {Undefined, Null} \cup {LenOf(n) : n \in 1..MaxLen}
TypeIds(h) == 1..Len(h)
NumPrimitives == Len(InitialHeap)
\* an allocation is allowed while the run's allocation budget lasts
CanAllocate(h) == Len(h) < NumPrimitives + MaxCreated

(* ----------------------------- comparisons ----------------------------- *)

\* UTF-16 order of the characters the model's strings are made of
Alphabet == <<"-", ".", "0", "1", "2", "3", "4", "5", "6", "7", "8", "9",
              "a", "b", "c", "e", "h", "l", "o">>
CharCode(c) == CHOOSE i \in 1..Len(Alphabet) : Alphabet[i] = c

\* s < t on JavaScript strings: the first differing code unit decides,
\* a proper prefix is smaller
RECURSIVE StrLt(_, _)
StrLt(s, t) ==
    IF t = <<>> THEN FALSE
    ELSE IF s = <<>> THEN TRUE
    ELSE IF Head(s) # Head(t) THEN CharCode(Head(s)) < CharCode(Head(t))
    ELSE StrLt(Tail(s), Tail(t))

\* ToNumber of a boolean in a relational comparison
BoolNum(b) == IF b THEN 1 ELSE 0

\* a === b on values of one kind
JsStrictEq(a, b) == a = b

\* a < b on two numbers, two strings or two booleans
JsLt(a, b) ==
    CASE a.k = "num" /\ b.k = "num" -> a.v < b.v
      [] a.k = "str" /\ b.k = "str" -> StrLt(a.v, b.v)
      [] a.k = "bool" /\ b.k = "bool" -> BoolNum(a.v) < BoolNum(b.v)
      [] OTHER -> FALSE

\* moment(a).diff(moment(b)): whole milliseconds, a minus b
MomentDiff(a, b) == a.v - b.v

Min(x, y) == IF x < y THEN x ELSE y

RECURSIVE equals(_, _, _, _), gt(_, _, _, _), lt(_, _, _, _)
RECURSIVE doEquals(_, _, _, _), doGt(_, _, _, _), doLt(_, _, _, _)

\* the hooks, by class; the result of a hook is a boolean.
\* TimestampType: diff < 0.1, with diff in whole milliseconds
\* ArrayType: the loops return at the first index that decides
doEquals(h, t, a, b) ==
    CASE h[t].cls = "TimestampType" -> 10 * MomentDiff(a, b) < 1
      [] h[t].cls = "NullType" -> FALSE
      [] h[t].cls = "ArrayType" ->
            IF Len(a.v) # Len(b.v) THEN FALSE
            ELSE \A i \in 1..Len(a.v) : equals(h, h[t].of, a.v[i], b.v[i]).res
      [] OTHER -> JsStrictEq(a, b)

doGt(h, t, a, b) ==
    CASE h[t].cls = "TimestampType" -> MomentDiff(a, b) > 0
      [] h[t].cls = "NullType" -> FALSE
      [] h[t].cls = "ArrayType" ->
            \/ \E i \in 1..Min(Len(a.v), Len(b.v)) : gt(h, h[t].of, a.v[i], b.v[i]).res
            \/ Len(a.v) > Len(b.v)
      [] OTHER -> JsLt(b, a)

doLt(h, t, a, b) ==
    CASE h[t].cls = "TimestampType" -> MomentDiff(a, b) < 0
      [] h[t].cls = "NullType" -> FALSE
      [] h[t].cls = "ArrayType" ->
            \/ \E i \in 1..Min(Len(a.v), Len(b.v)) : lt(h, h[t].of, a.v[i], b.v[i]).res
            \/ Len(a.v) < Len(b.v)
      [] OTHER -> JsLt(a, b)

\* equals that takes null to be equal to null
equalsNullIsNull(h, t, a, b) ==
    IF a = Null /\ b = Null
    THEN [res |-> TRUE, hook |-> FALSE]
    ELSE IF a = Null \/ b = Null
    THEN [res |-> FALSE, hook |-> FALSE]
    ELSE [res |-> doEquals(h, t, a, b), hook |-> TRUE]

\* TypeBase.equals/gt/lt: res is the result, hook tells whether the
\* class's hook was called
equals(h, t, a, b) ==
    IF a = Null \/ b = Null
    THEN [res |-> FALSE, hook |-> FALSE]
    ELSE [res |-> doEquals(h, t, a, b), hook |-> TRUE]

gt(h, t, a, b) ==
    IF a = Null \/ b = Null
    THEN [res |-> FALSE, hook |-> FALSE]
    ELSE [res |-> doGt(h, t, a, b), hook |-> TRUE]

lt(h, t, a, b) ==
    IF a = Null \/ b = Null
    THEN [res |-> FALSE, hook |-> FALSE]
    ELSE [res |-> doLt(h, t, a, b), hook |-> TRUE]

(* --------------------------- sample raw values -------------------------- *)

\* sequences over S of length at most n
RECURSIVE SeqsUpTo(_, _)
SeqsUpTo(S, n) ==
    IF n = 0 THEN {<<>>}
    ELSE LET shorter == SeqsUpTo(S, n - 1)
         IN shorter \cup {Append(s, x) : s \in {q \in shorter : Len(q) = n - 1}, x \in S}

TextSamples ==
    { Str(<<>>), Str(<<"4", "2">>), Str(<<"4", ".", "5">>),
      Str(<<"a", "b", "c">>), Str(<<"h", "e", "l", "l", "o">>) }

\* the elements of S in some order
RECURSIVE SetToSeq(_)
SetToSeq(S) ==
    IF S = {} THEN <<>>
    ELSE LET x == CHOOSE y \in S : TRUE IN <<x>> \o SetToSeq(S \ {x})

\* the elements the sample arrays of element type t are built from
RECURSIVE Elems(_, _)
Elems(h, t) ==
    CASE h[t].cls = "BoolType" -> {Bool(FALSE), Bool(TRUE)}
      [] h[t].cls = "NullType" -> {Null}
      [] h[t].cls = "TimestampType" -> {Moment(1), Moment(2)}
      [] h[t].cls = "NumberType" -> {Num(Scale), Num(2 * Scale)}
      [] h[t].cls = "TextType" -> {Str(<<"4", "2">>), Str(<<"a", "b", "c">>)}
      [] h[t].cls = "ArrayType" -> {Arr(<<>>), Arr(SetToSeq(Elems(h, h[t].of)))}

\* the non-null raw values of type t that the operations are tried on
Samples(h, t) ==
    CASE h[t].cls = "BoolType" -> {Bool(FALSE), Bool(TRUE)}
      [] h[t].cls = "NullType" -> {}
      [] h[t].cls = "TimestampType" -> {Moment(0), Moment(1), Moment(2)}
      [] h[t].cls = "NumberType" ->
            IF h[t].primary \in integers
            THEN {Num(-3 * Scale), Num(2 * Scale), Num(3 * Scale)}
            ELSE {Num(-250), Num(-240), Num(2 * Scale), Num(240), Num(250), Num(260)}
      [] h[t].cls = "TextType" -> TextSamples
      [] h[t].cls = "ArrayType" ->
            {Arr(s) : s \in SeqsUpTo(Elems(h, h[t].of), MaxArrLen)}

RawValues(h, t) == Samples(h, t) \cup {Null}

(* ------------------------------ evaluators ------------------------------ *)

\* An Evaluator: its type (what makeType returned: a descriptor reference,
\* or the closure under Types.text), whether it has a selection (it is
\* constant when it has none), and val: a raw value or a closure.
Evaluator(type, selection, val) == [type |-> type, selection |-> selection, val |-> val]

isConstant(e) == ~e.selection

\* Evaluator.setType / Evaluator.setValue: copies with one field replaced
setType(e, type) == Evaluator(type, e.selection, e.val)
setValue(e, val) == Evaluator(e.type, e.selection, val)

\* Value.null(): the canonical null constant
ValueNull == Evaluator(Ref(3), FALSE, Null)

\* Value.constant(x, type)
ValueConstant(x, type) == Evaluator(type, FALSE, x)

\* closures: the producer of a column read, and the producers doConvert builds
Column == [k |-> "fn", op |-> "column"]
Fn(op, src, to) == [k |-> "fn", op |-> op, src |-> src, to |-> to]

(* ------------------------------ JS helpers ------------------------------ *)

NaN == [k |-> "nan"]

\* Math.round: the nearest whole number, a half goes up
MathRound(n) == ((2 * n + Scale) \div (2 * Scale)) * Scale

MathFloor(n) == (n \div Scale) * Scale

IsDigit(c) == c \in {"0", "1", "2", "3", "4", "5", "6", "7", "8", "9"}
DigitVal(c) == CharCode(c) - CharCode("0")

\* the longest prefix of s made of digits
RECURSIVE DigitRun(_)
DigitRun(s) ==
    IF s = <<>> \/ ~IsDigit(Head(s)) THEN <<>> ELSE <<Head(s)>> \o DigitRun(Tail(s))

\* the value of a digit sequence, in units
RECURSIVE IntOf(_)
IntOf(ds) ==
    IF ds = <<>> THEN 0 ELSE 10 * IntOf(SubSeq(ds, 1, Len(ds) - 1)) + DigitVal(ds[Len(ds)])

\* the value of the digits after the point, in hundredths (the strings of
\* the model have at most two of them, and no exponent)
FracOf(ds) ==
    (IF Len(ds) >= 1 THEN DigitVal(ds[1]) * (Scale \div 10) ELSE 0)
    + (IF Len(ds) >= 2 THEN DigitVal(ds[2]) * (Scale \div 100) ELSE 0)

\* Number.parseFloat: the longest prefix that is a decimal literal, else NaN
ParseFloat(s) ==
    LET neg == s # <<>> /\ Head(s) = "-"
        body == IF neg THEN Tail(s) ELSE s
        ip == DigitRun(body)
        rest == SubSeq(body, Len(ip) + 1, Len(body))
        fp == IF rest # <<>> /\ Head(rest) = "." THEN DigitRun(Tail(rest)) ELSE <<>>
        mag == IntOf(ip) * Scale + FracOf(fp)
    IN IF ip = <<>> /\ fp = <<>> THEN NaN
       ELSE Num(IF neg THEN -mag ELSE mag)

\* moment(x): null gives the invalid moment; a string gives whatever moment
\* the date parser builds from it (an object, never null)
MomentOf(x) == IF x.k = "str" THEN [k |-> "momentOf", s |-> x.v] ELSE InvalidMoment

\* ToNumber of a text length in a relational comparison (null is 0)
LenNum(l) == IF l = Null THEN 0 ELSE l.n

(* ------------------------- canConvert / convert ------------------------- *)

\* whether the class defines doConvert
HasDoConvert(h, s) == h[s].cls \in {"NullType", "NumberType", "TextType", "ArrayType"}

RECURSIVE canConvert(_, _, _)

\* TextType.doCanConvert: true, or undefined when nothing matches
TextDoCanConvert(h, to) ==
    IF PrimaryOf(h, to) \in {"timestamp", "text"} THEN Bool(TRUE)
    ELSE IF PrimaryOf(h, to) \in numbers THEN Bool(TRUE)
    ELSE Undefined

\* ArrayType.doCanConvert: to instanceof ArrayType && to.canConvert(this.of)
ArrayDoCanConvert(h, s, to) ==
    IF to.k = "type" /\ h[to.id].cls = "ArrayType"
    THEN canConvert(h, to.id, Ref(h[s].of)).v
    ELSE Bool(FALSE)

\* canConvert of the descriptor s: NumberType overrides it (and does not
\* resolve names); the other classes inherit TypeBase.canConvert.
\* The outcome holds true, false or undefined, or is the error of makeType.
canConvert(h, s, _to) ==
    IF h[s].cls = "NumberType"
    THEN Ok(Bool(PrimaryOf(h, _to) \in {"int", "long", "float", "decimal"}))
    ELSE LET mt == makeType(_to)
             to == mt.v
         IN IF mt.st # "ok" THEN mt
            ELSE IF to = Ref(s) THEN Ok(Bool(TRUE))
            ELSE CASE h[s].cls = "NullType" -> Ok(Bool(TRUE))
                   [] h[s].cls = "TextType" -> Ok(TextDoCanConvert(h, to))
                   [] h[s].cls = "ArrayType" -> Ok(ArrayDoCanConvert(h, s, to))
                   [] OTHER -> Ok(Undefined)

\* truthiness of what canConvert returned
IsTrue(v) == v.k = "bool" /\ v.v

\* NumberType.doConvert that only retags, whatever the two kinds
NumberDoConvertRetagOnly(h, value, to) ==
    Evaluator(to, value.selection, value.val)

\* NumberType.doConvert
NumberDoConvert(h, value, to) ==
    IF PrimaryOf(h, value.type) \notin integers /\ PrimaryOf(h, to) \in integers
    THEN Evaluator(to, value.selection, Fn("round", value, to))
    ELSE Evaluator(to, value.selection, value.val)

\* TextType.doConvert; fromStr and toStr are both `to`
TextDoConvert(h, value, to) ==
    CASE PrimaryOf(h, to) = "timestamp" ->
            Evaluator(Types("timestamp"), value.selection, Fn("moment", value, to))
      [] PrimaryOf(h, to) = "text" ->
            LET fromStr == h[to.id]
                toStr == h[to.id]
            IN IF toStr.len = Null \/ LenNum(fromStr.len) < LenNum(toStr.len)
               THEN setType(value, to)
               ELSE setValue(setType(value, to), Fn("checkLength", value, to))
      [] PrimaryOf(h, to) \in numbers ->
            setValue(setType(value, to), Fn("parseNumber", value, to))
      [] OTHER -> Undefined

doConvert(h, s, value, to) ==
    CASE h[s].cls = "NullType" -> Evaluator(to, FALSE, Null)
      [] h[s].cls = "NumberType" -> NumberDoConvert(h, value, to)
      [] h[s].cls = "TextType" -> TextDoConvert(h, value, to)
      [] h[s].cls = "ArrayType" -> Evaluator(to, value.selection, Fn("mapConvert", value, to))

\* an outcome with the note whether convert ran the new producer itself
Forced(o, f) == [x \in DOMAIN o \cup {"forced"} |-> IF x = "forced" THEN f ELSE o[x]]

RECURSIVE Get(_, _, _), Apply(_, _, _), convert(_, _, _, _), MapConvert(_, _, _, _, _)

\* Evaluator.get(raw)
Get(h, e, raw) ==
    IF e.val.k = "fn" THEN Apply(h, e.val, raw) ELSE Ok(e.val)

\* arr.map(x => Value.constant(x, valueType.of).convert(to.of).get(raw)),
\* the first error ends it
MapConvert(h, arr, valueType, to, raw) ==
    IF arr = <<>> THEN Ok(Arr(<<>>))
    ELSE LET c == convert(h, h[valueType.id].of,
                          ValueConstant(Head(arr), Ref(h[valueType.id].of)),
                          Ref(h[to.id].of))
             x == IF c.st = "ok" THEN Get(h, c.v, raw) ELSE [st |-> c.st, msg |-> c.msg]
             rest == IF x.st = "ok" THEN MapConvert(h, Tail(arr), valueType, to, raw) ELSE x
         IN IF rest.st = "ok" THEN Ok(Arr(<<x.v>> \o rest.v.v)) ELSE rest

\* a closure applied to raw: the value it returns or the error it throws
Apply(h, f, raw) ==
    IF f.op = "column" THEN Ok(raw)
    ELSE LET got == Get(h, f.src, raw)
         IN IF got.st # "ok" THEN got
            ELSE CASE f.op = "round" ->
                        IF got.v.k = "num" THEN Ok(Num(MathRound(got.v.v))) ELSE got
                   [] f.op = "moment" -> Ok(MomentOf(got.v))
                   [] f.op = "checkLength" ->
                        IF got.v.k \in {"null", "undefined"}
                        THEN Throw("TypeError", "Cannot read property 'length' of null")
                        ELSE IF Len(got.v.v) > h[f.to.id].len.n
                        THEN Throw("QueryError", "value too long for type character varying")
                        ELSE got
                   [] f.op = "parseNumber" ->
                        IF got.v.k \in {"null", "undefined"} THEN Ok(Null)
                        ELSE LET val == ParseFloat(got.v.v)
                             IN IF val = NaN
                                THEN Throw("QueryError", "invalid input syntax")
                                ELSE IF PrimaryOf(h, f.to) \in integers
                                        /\ MathFloor(val.v) # val.v
                                THEN Throw("QueryError", "invalid input syntax")
                                ELSE Ok(val)
                   [] f.op = "mapConvert" ->
                        IF got.v.k \in {"null", "undefined"}
                        THEN Throw("TypeError", "Cannot read property 'map' of null")
                        ELSE MapConvert(h, got.v.v, f.src.type, f.to, raw)

\* TypeBase.convert that runs the new producer whether or not a is constant
convertEager(h, s, a, _to) ==
    LET mt == makeType(_to)
        to == mt.v
    IN IF mt.st # "ok" THEN Forced(mt, FALSE)
       ELSE IF to = Ref(s) THEN Forced(Ok(a), FALSE)
       ELSE IF ~IsTrue(canConvert(h, s, to).v) \/ ~HasDoConvert(h, s)
       THEN Forced(Throw("CastError", "cannot cast"), FALSE)
       ELSE LET converted == doConvert(h, s, a, to)
            IN IF converted = Undefined
               THEN Forced(Throw("CastError", "cannot cast"), FALSE)
               ELSE IF converted.val.k = "fn"
               THEN LET r == Apply(h, converted.val, Null)
                    IN IF r.st # "ok" THEN Forced(r, TRUE)
                       ELSE IF r.v = Null THEN Forced(Ok(ValueNull), TRUE)
                       ELSE Forced(Ok(setValue(converted, r.v)), TRUE)
               ELSE IF converted.val = Null THEN Forced(Ok(ValueNull), FALSE)
               ELSE Forced(Ok(converted), FALSE)

\* TypeBase.convert(a, _to) on the descriptor s.  Every a of the model is
\* an Evaluator, so the test `a instanceof Evaluator` always passes.  The
\* outcome is what convert returns or throws, with the note whether it ran
\* the new producer (converted.val(null)) itself.
convert(h, s, a, _to) ==
    LET mt == makeType(_to)
        to == mt.v
    IN IF mt.st # "ok" THEN Forced(mt, FALSE)
       ELSE IF to = Ref(s) THEN Forced(Ok(a), FALSE)
       ELSE IF ~IsTrue(canConvert(h, s, to).v) \/ ~HasDoConvert(h, s)
       THEN Forced(Throw("CastError", "cannot cast"), FALSE)
       ELSE LET converted == doConvert(h, s, a, to)
            IN IF converted = Undefined
               THEN Forced(Throw("CastError", "cannot cast"), FALSE)
               ELSE IF isConstant(a)
               THEN IF converted.val.k = "fn"
                    THEN LET r == Apply(h, converted.val, Null)
                         IN IF r.st # "ok" THEN Forced(r, TRUE)
                            ELSE IF r.v = Null THEN Forced(Ok(ValueNull), TRUE)
                            ELSE Forced(Ok(setValue(converted, r.v)), TRUE)
                    ELSE IF converted.val = Null THEN Forced(Ok(ValueNull), FALSE)
                    ELSE Forced(Ok(converted), FALSE)
               ELSE Forced(Ok(converted), FALSE)

\* the evaluators of type s that are converted: a constant for each raw
\* value (null included), and a column read
SourceEvaluators(h, s) ==
    {Evaluator(Ref(s), FALSE, v) : v \in RawValues(h, s)}
        \cup {Evaluator(Ref(s), TRUE, Column)}

\* the targets given to canConvert and convert: names and descriptors
Targets(h) == {Name(n) : n \in DataTypes} \cup {Ref(i) : i \in TypeIds(h)}

(* ------------------------------ actions -------------------------------- *)

\* Every operation overwrites `last` and none reads it, so the state an
\* operation leads to does not depend on what `last` held, and a comparison
\* or a conversion changes nothing but `last`.  The registry operations are
\* therefore taken from the states a registry operation left, and the
\* comparisons and conversions from the states in which `last` still holds
\* the latest allocation (or nothing yet): every registry is reached that
\* way, and every operation is applied to every registry, over fewer
\* transitions.
AfterRegistry == last.op \in {"init", "makeText", "makeArray", "Types", "makeType"}

AfterAllocation ==
    \/ last.op = "init"
    \/ last.op \in {"makeText", "makeArray"} /\ last.ret = Ref(Len(heap))

Init ==
    /\ heap = InitialHeap
    /\ texts = [x \in {} |-> 0]
    /\ arrays = [x \in {} |-> 0]
    /\ last = [op |-> "init"]

MakeText ==
    /\ AfterRegistry
    /\ \E len \in LenArgs :
        LET r == makeText(heap, texts, len)
        IN /\ Len(r.heap) = Len(heap) \/ CanAllocate(heap)
           /\ heap' = r.heap
           /\ texts' = r.texts
           /\ last' = [op |-> "makeText", arg |-> len, ret |-> r.ret]
           /\ UNCHANGED arrays

\* Types.text(len): the closure (len = null) => makeText(len)
TypesText ==
    /\ AfterRegistry
    /\ \E len \in LenArgs :
        LET r == makeText(heap, texts, IF len.k = "undefined" THEN Null ELSE len)
        IN /\ Len(r.heap) = Len(heap) \/ CanAllocate(heap)
           /\ heap' = r.heap
           /\ texts' = r.texts
           /\ last' = [op |-> "makeText", arg |-> len, ret |-> r.ret]
           /\ UNCHANGED arrays

MakeArray ==
    /\ AfterRegistry
    /\ \E of \in TypeIds(heap) :
        LET r == makeArray(heap, arrays, of)
        IN /\ Len(r.heap) = Len(heap) \/ CanAllocate(heap)
           /\ heap' = r.heap
           /\ arrays' = r.arrays
           /\ last' = [op |-> "makeArray", arg |-> of, ret |-> r.ret]
           /\ UNCHANGED texts

\* Types.int, Types.bool, ...: a property read
Primitive ==
    /\ AfterRegistry
    /\ \E name \in DataTypes :
        /\ last' = [op |-> "Types", arg |-> name, ret |-> Types(name)]
        /\ UNCHANGED <<heap, texts, arrays>>

MakeType ==
    /\ AfterRegistry
    /\ \E to \in {Name(s) : s \in DataTypes} \cup {Ref(i) : i \in TypeIds(heap)} :
        /\ last' = [op |-> "makeType", arg |-> to, out |-> makeType(to)]
        /\ UNCHANGED <<heap, texts, arrays>>

Registry == MakeText \/ TypesText \/ MakeArray \/ Primitive \/ MakeType

Next == Registry

Spec == Init /\ [][Next]_vars

(* ------------------------- comparison actions --------------------------- *)

Equals ==
    /\ AfterAllocation
    /\ \E t \in TypeIds(heap) : \E a, b \in RawValues(heap, t) :
        /\ last' = [op |-> "equals", t |-> t, a |-> a, b |-> b,
                    out |-> equals(heap, t, a, b)]
        /\ UNCHANGED <<heap, texts, arrays>>

Gt ==
    /\ AfterAllocation
    /\ \E t \in TypeIds(heap) : \E a, b \in RawValues(heap, t) :
        /\ last' = [op |-> "gt", t |-> t, a |-> a, b |-> b,
                    out |-> gt(heap, t, a, b)]
        /\ UNCHANGED <<heap, texts, arrays>>

Lt ==
    /\ AfterAllocation
    /\ \E t \in TypeIds(heap) : \E a, b \in RawValues(heap, t) :
        /\ last' = [op |-> "lt", t |-> t, a |-> a, b |-> b,
                    out |-> lt(heap, t, a, b)]
        /\ UNCHANGED <<heap, texts, arrays>>

NextCompare == Registry \/ Equals \/ Gt \/ Lt

SpecCompare == Init /\ [][NextCompare]_vars

(* ------------------------- conversion actions --------------------------- *)

CanConvert ==
    /\ AfterAllocation
    /\ \E s \in TypeIds(heap) : \E to \in Targets(heap) :
        /\ last' = [op |-> "canConvert", s |-> s, to |-> to,
                    out |-> canConvert(heap, s, to)]
        /\ UNCHANGED <<heap, texts, arrays>>

Convert ==
    /\ AfterAllocation
    /\ \E s \in TypeIds(heap) : \E a \in SourceEvaluators(heap, s) :
         \E to \in Targets(heap) :
            /\ last' = [op |-> "convert", s |-> s, a |-> a, to |-> to,
                        out |-> convert(heap, s, a, to)]
            /\ UNCHANGED <<heap, texts, arrays>>

\* the returned evaluator is resolved: on no context when the source was
\* constant, on a row holding any raw value of the source type otherwise
Resolve ==
    /\ last.op = "convert"
    /\ last.out.st = "ok"
    /\ \E raw \in (IF isConstant(last.a) THEN {Null} ELSE RawValues(heap, last.s)) :
        /\ last' = [op |-> "resolve", s |-> last.s, a |-> last.a, to |-> last.to,
                    conv |-> last.out.v, raw |-> raw,
                    src |-> Get(heap, last.a, raw),
                    out |-> Get(heap, last.out.v, raw)]
        /\ UNCHANGED <<heap, texts, arrays>>

NextConvert == Registry \/ CanConvert \/ Convert \/ Resolve

SpecConvert == Init /\ [][NextConvert]_vars

(* ============================== properties ============================== *)

IsCompare == last.op \in {"equals", "gt", "lt"}

\* C1: for every type and every raw value, equals, gt and lt return false
\* when either operand is null (null against null included), and the
\* class's doEquals/doGt/doLt hook is not called.
C1_NullComparesFalse ==
    (IsCompare /\ (last.a = Null \/ last.b = Null))
        => (last.out.res = FALSE /\ last.out.hook = FALSE)

C1_Witness ==
    /\ last.op = "equals"
    /\ last.a = Null
    /\ last.b = Null
    /\ heap[last.t].cls = "ArrayType"

\* The parts of C2.  (1) No two
\* descriptors of the heap have the same class and parameters, the maps
\* name descriptors of their own key, and the primitives are the ones
\* allocated at load.  (2) makeText, makeArray and a Types lookup return the
\* descriptor of the key asked for (so equal keys give the identical
\* instance and different keys different ones).  (3) No step replaces a
\* descriptor or a map entry once made.
C2_Unique ==
    /\ \A i, j \in TypeIds(heap) : heap[i] = heap[j] => i = j
    /\ \A key \in DOMAIN texts : heap[texts[key]] = TextType(key)
    /\ \A of \in DOMAIN arrays : heap[arrays[of]] = ArrayType(of)
    /\ SubSeq(heap, 1, NumPrimitives) = InitialHeap

C2_Returned ==
    /\ last.op = "makeText" =>
          /\ last.ret.k = "type"
          /\ heap[last.ret.id] = TextType(IF last.arg.k = "len" THEN last.arg ELSE Null)
    /\ last.op = "makeArray" =>
          /\ last.ret.k = "type"
          /\ heap[last.ret.id] = ArrayType(last.arg)
    /\ (last.op = "Types" /\ last.arg \in {"bool", "timestamp", "null", "float", "int", "long"}) =>
          /\ last.ret.k = "type"
          /\ heap[last.ret.id].primary = last.arg
          /\ last.ret.id <= NumPrimitives

C2_Kept ==
    /\ \A i \in TypeIds(heap) : i \in TypeIds(heap') /\ heap'[i] = heap[i]
    /\ \A key \in DOMAIN texts : key \in DOMAIN texts' /\ texts'[key] = texts[key]
    /\ \A of \in DOMAIN arrays : of \in DOMAIN arrays' /\ arrays'[of] = arrays[of]

\* C2: in every reachable state the registry holds one descriptor per key
\* and the last call returned the descriptor of its key, and every step
\* keeps the descriptors and map entries already made.
C2_OneInstancePerKey == [](C2_Unique /\ C2_Returned) /\ [][C2_Kept]_vars

\* a call that returned a descriptor allocated by an earlier call, after
\* other descriptors were allocated
C2_Witness ==
    /\ last.op \in {"makeText", "makeArray"}
    /\ last.ret.id > NumPrimitives
    /\ last.ret.id < Len(heap)

\* C3: converting a constant evaluator holding null to any other type the
\* source type can convert to returns the canonical null constant: no
\* error, no other evaluator.
C3_ConstantNullCollapses ==
    (/\ last.op = "convert"
     /\ isConstant(last.a)
     /\ last.a.val = Null
     /\ makeType(last.to).st = "ok"
     /\ makeType(last.to).v # Ref(last.s)
     /\ IsTrue(canConvert(heap, last.s, makeType(last.to).v).v))
        => (last.out.st = "ok" /\ last.out.v = ValueNull)

\* the targets C4 is about: a bounded text descriptor or a numeric kind
IsBoundedText(h, to) ==
    to.k = "type" /\ h[to.id].cls = "TextType" /\ h[to.id].len # Null

IsDeferredTarget(h, _to) ==
    /\ makeType(_to).st = "ok"
    /\ \/ IsBoundedText(h, makeType(_to).v)
       \/ PrimaryOf(h, makeType(_to).v) \in numbers

IsTextSource == last.s \in TypeIds(heap) /\ heap[last.s].cls = "TextType"

\* C4 as claimed: for every text evaluator, constant or not, convert to a
\* bounded text type or a numeric kind raises no length or parse error and
\* runs no producer.
C4_DeferredForAll ==
    (last.op = "convert" /\ IsTextSource /\ IsDeferredTarget(heap, last.to))
        => (last.out.st # "QueryError" /\ ~last.out.forced)

\* C4 amended: for a text evaluator that is not constant, convert to a
\* bounded text type or a numeric kind returns an evaluator, raises nothing
\* and runs no producer, and the length error is raised when the result is
\* resolved, exactly on the strings longer than the bound, and the parse
\* error likewise ("abc" fails, "42" is 42, "4.5" fails for int and long
\* and is 4.5 for float); for a constant text evaluator and another bounded
\* text type, convert runs the new producer itself and raises the length
\* error exactly on those strings.
C4_DeferredUnlessConstant ==
    /\ (last.op = "convert" /\ IsTextSource /\ IsDeferredTarget(heap, last.to)
            /\ ~isConstant(last.a))
          => (last.out.st = "ok" /\ ~last.out.forced /\ last.out.v.val.k = "fn")
    /\ (last.op = "resolve" /\ IsTextSource /\ ~isConstant(last.a)
            /\ IsBoundedText(heap, last.to) /\ last.to # Ref(last.s)
            /\ last.raw.k = "str")
          => (last.out.st = "QueryError" <=> Len(last.raw.v) > heap[last.to.id].len.n)
    /\ (last.op = "resolve" /\ IsTextSource /\ ~isConstant(last.a)
            /\ IsDeferredTarget(heap, last.to)
            /\ PrimaryOf(heap, makeType(last.to).v) \in numbers)
          => LET isInt == PrimaryOf(heap, makeType(last.to).v) \in integers
             IN /\ last.raw = Str(<<"a", "b", "c">>) => last.out.st = "QueryError"
                /\ last.raw = Str(<<"4", "2">>) => last.out = Ok(Num(42 * Scale))
                /\ last.raw = Str(<<"4", ".", "5">>) =>
                      IF isInt THEN last.out.st = "QueryError"
                      ELSE last.out = Ok(Num(4 * Scale + Scale \div 2))
    /\ (last.op = "convert" /\ IsTextSource /\ isConstant(last.a)
            /\ IsBoundedText(heap, last.to) /\ last.to # Ref(last.s)
            /\ last.a.val.k = "str")
          => /\ last.out.forced
             /\ last.out.st = "QueryError" <=> Len(last.a.val.v) > heap[last.to.id].len.n

\* a column evaluator converted without an error, whose resolution on a
\* string longer than the bound raised the length error
C4_Witness ==
    /\ last.op = "resolve"
    /\ IsTextSource
    /\ ~isConstant(last.a)
    /\ IsBoundedText(heap, last.to)
    /\ last.raw.k = "str"
    /\ last.out.st = "QueryError"

\* C5: makeType returns a descriptor unchanged, returns the canonical
\* descriptor for the names null, bool, timestamp, int, long and float, and
\* fails for every other name (text, array, decimal); what it returns is
\* always a descriptor.
C5_MakeTypeResolves ==
    last.op = "makeType" =>
        /\ last.arg.k = "type" => last.out = Ok(last.arg)
        /\ (last.arg.k = "name"
              /\ last.arg.s \in {"null", "bool", "timestamp", "int", "long", "float"})
             => (last.out.st = "ok" /\ last.out.v.k = "type"
                 /\ heap[last.out.v.id].primary = last.arg.s)
        /\ (last.arg.k = "name"
              /\ last.arg.s \notin {"null", "bool", "timestamp", "int", "long", "float"})
             => last.out.st = "Error"
        /\ last.out.st = "ok" => last.out.v.k = "type"

Abs(x) == IF x < 0 THEN -x ELSE x

\* C6: two non-null timestamps are equal exactly when the size of their
\* difference is below 0.1 ms, whichever of the two is the earlier.
C6_TimestampTolerance ==
    (/\ last.op = "equals"
     /\ heap[last.t].cls = "TimestampType"
     /\ last.a # Null
     /\ last.b # Null)
        => (last.out.res <=> 10 * Abs(MomentDiff(last.a, last.b)) < 1)

\* the order C7 claims: the first index where the elements are not equal
\* decides, and with no such index the longer array is the greater
FirstDifference(h, of, a, b) ==
    {i \in 1..Min(Len(a), Len(b)) :
        /\ ~equals(h, of, a[i], b[i]).res
        /\ \A j \in 1..(i - 1) : equals(h, of, a[j], b[j]).res}

ClaimedGt(h, of, a, b) ==
    IF FirstDifference(h, of, a, b) # {}
    THEN \E i \in FirstDifference(h, of, a, b) : gt(h, of, a[i], b[i]).res
    ELSE Len(a) > Len(b)

\* C7: on arrays of non-null numbers gt is decided by the first differing
\* index (else by length), lt is its mirror, and at most one of equals, gt
\* and lt holds of a pair.
C7_ArrayOrderByFirstDifference ==
    (/\ last.op = "gt"
     /\ heap[last.t].cls = "ArrayType"
     /\ heap[heap[last.t].of].cls = "NumberType"
     /\ last.a # Null
     /\ last.b # Null)
        => LET of == heap[last.t].of
               e == equals(heap, last.t, last.a, last.b).res
               l == lt(heap, last.t, last.a, last.b).res
           IN /\ last.out.res = ClaimedGt(heap, of, last.a.v, last.b.v)
              /\ l = gt(heap, last.t, last.b, last.a).res
              /\ ~(e /\ last.out.res) /\ ~(e /\ l) /\ ~(l /\ last.out.res)

\* a resolved conversion between two different numeric descriptors of a
\* source that produced a number
IsNumericResolve ==
    /\ last.op = "resolve"
    /\ heap[last.s].cls = "NumberType"
    /\ makeType(last.to).v.k = "type"
    /\ makeType(last.to).v # Ref(last.s)
    /\ heap[makeType(last.to).v.id].cls = "NumberType"
    /\ last.src.st = "ok"
    /\ last.src.v.k = "num"

\* C8: a float value converted to int or long resolves to a nearest whole
\* number (2.5 to 3, 2.4 to 2, 2.6 to 3), for constant and column sources
\* alike; an int or long value converted to any numeric kind resolves to the
\* source value; the result carries the target type.
C8_NumericRounding ==
    IsNumericResolve =>
        LET v == last.src.v.v
            t == makeType(last.to).v
        IN /\ last.conv.type = t
           /\ last.out.st = "ok"
           /\ last.out.v.k = "num"
           /\ IF heap[last.s].primary \notin integers /\ heap[t.id].primary \in integers
              THEN /\ last.out.v.v % Scale = 0
                   /\ 2 * Abs(last.out.v.v - v) <= Scale
                   /\ v = 250 => last.out.v.v = 300
                   /\ v = 240 => last.out.v.v = 200
                   /\ v = 260 => last.out.v.v = 300
              ELSE last.out.v.v = v

\* a column of float holding 2.5, converted to int, resolved to 3
C8_Witness ==
    /\ IsNumericResolve
    /\ ~isConstant(last.a)
    /\ heap[last.s].primary = "float"
    /\ PrimaryOf(heap, makeType(last.to).v) = "int"
    /\ last.src.v.v = 250
    /\ last.out = Ok(Num(300))

\* C9: an array type converts to another array type exactly when the two
\* element types convert to each other, and to nothing that is not an
\* array type.
C9_ArrayConvertibility ==
    (/\ last.op = "canConvert"
     /\ heap[last.s].cls = "ArrayType"
     /\ last.to.k = "type"
     /\ last.to # Ref(last.s))
        => (IsTrue(last.out.v) <=>
              /\ heap[last.to.id].cls = "ArrayType"
              /\ IsTrue(canConvert(heap, heap[last.s].of, Ref(heap[last.to.id].of)).v)
              /\ IsTrue(canConvert(heap, heap[last.to.id].of, Ref(heap[last.s].of)).v))

\* C10: text(m) converted to another text(n) resolves to the source string
\* unchanged when n is unbounded or n >= m; otherwise it raises the length
\* error exactly when the string is longer than n, and returns the string
\* unchanged when it is not.
C10_TextRebound ==
    (/\ last.op = "resolve"
     /\ heap[last.s].cls = "TextType"
     /\ last.to.k = "type"
     /\ last.to # Ref(last.s)
     /\ heap[last.to.id].cls = "TextType"
     /\ last.src.st = "ok"
     /\ last.src.v.k = "str")
        => LET m == heap[last.s].len
               n == heap[last.to.id].len
           IN IF n = Null \/ (m # Null /\ n.n >= m.n)
              THEN last.out = last.src
              ELSE /\ last.out.st = "QueryError" <=> Len(last.src.v.v) > n.n
                   /\ Len(last.src.v.v) <= n.n => last.out = last.src

====
